---- MODULE Spec2Model ----
(***************************************************************************)
(* Model of the subtitle translation pipeline of reclipper.                *)
(*                                                                         *)
(* Spec models SubtitleTranslator.translate_subtitle_file                   *)
(* (src/subtitle_translator.py): the cue sequence is cut into batches of   *)
(* batch_size cues, each batch is sent to the translation service, the     *)
(* response is decoded and validated in a retry loop, the accepted batches *)
(* are concatenated and the result is written to the output file.          *)
(***************************************************************************)
EXTENDS Integers, Sequences, FiniteSets, TLC

\* ------------------------------------------------------------------ bounds
\* Largest number of cues in the input file (two batches when > batch_size).
MaxCues == 21
\* Number of distinct wordings the service may give for one translation.
MaxVariants == 2

\* ------------------------------------------------------- program constants
batch_size == 20
max_retries == 3
target_language == "zh-CN"
translation_model == "gpt-3.5-turbo"

VARIABLES
    subtitles,             \* cues read from the input file
    i,                     \* loop variable of _translate_subtitles (0, 20, 40, ...)
    translated_subtitles,  \* accumulator of _translate_subtitles
    pc,                    \* "loop" | "parse" | "done" | "failed"
    retry_count,           \* retry_count of _translate_batch
    translated_json,       \* response text the while loop is about to decode
    requests,              \* requests issued for the current batch, in order
    svc_log,               \* class of every response the service gave for the batch
    last_response,         \* the response the service returned last
    total_calls,           \* service calls issued for the whole file
    error,                 \* "none" or the exception that ended the run
    output_file            \* NoFile, or the cues written by _write_subtitle_file

\* State of the video processor (src/video_processor.py).
VARIABLES
    disk,                  \* the files that exist: path -> lines of the file
    walk,                  \* the running call of _deoverlap_srt and its locals
    burn,                  \* the running burn operation: arguments and position
    ffmpeg_runs,           \* the transcoder invocations made, in order
    compose,               \* the running call of create_bilingual_subtitle_file
    codec                  \* a file on its way through the subtitle codecs

translator_vars == <<subtitles, i, translated_subtitles, pc, retry_count, translated_json,
                     requests, svc_log, last_response, total_calls, error, output_file>>

video_vars == <<disk, walk, burn, ffmpeg_runs, compose, codec>>

vars == <<translator_vars, video_vars>>

Min(a, b) == IF a <= b THEN a ELSE b

\* --------------------------------------------------------------- the input
SrcText(j) == "s" \o ToString(j)

\* Cue j of the input file; consecutive cues overlap by 500 ms.
InputCue(j) ==
    [start_time |-> 2000 * j - 1000, end_time |-> 2000 * j + 1500, text |-> SrcText(j)]

InputCues(n) == [j \in 1..n |-> InputCue(j)]

\* ------------------------------------------------ the translation service
TrText(v, j) == "t" \o ToString(v) \o "_" \o ToString(j)
OrigText(v, j) == "o" \o ToString(v) \o "_" \o ToString(j)

\* One element of the translated_subtitles array: a JSON object with optional
\* `translated` / `original` members, or a plain JSON string.
DictEntry(has_t, t, has_o, o) ==
    [isdict |-> TRUE, has_translated |-> has_t, translated |-> t,
     has_original |-> has_o, original |-> o, str |-> ""]

StrEntry(s) ==
    [isdict |-> FALSE, has_translated |-> FALSE, translated |-> "",
     has_original |-> FALSE, original |-> "", str |-> s]

EntryShapes == <<"full", "tonly", "oonly", "bare", "str", "blank">>

Patterns == {"full", "tonly", "oonly", "bare", "str", "blank", "mixed"}

ShapeAt(p, k) == IF p = "mixed" THEN EntryShapes[(k % 6) + 1] ELSE p

\* Entry for global cue number j with shape s in wording v.
Entry(s, v, j) ==
    CASE s = "full"  -> DictEntry(TRUE, TrText(v, j), TRUE, OrigText(v, j))
      [] s = "tonly" -> DictEntry(TRUE, TrText(v, j), FALSE, "")
      [] s = "oonly" -> DictEntry(FALSE, "", TRUE, OrigText(v, j))
      [] s = "bare"  -> DictEntry(FALSE, "", FALSE, "")
      [] s = "str"   -> StrEntry(TrText(v, j))
      [] s = "blank" -> DictEntry(TRUE, "", TRUE, OrigText(v, j))

\* A response text, by what json.loads makes of it:
\*   invalid_json     not JSON at all
\*   non_object_root  JSON whose root is an array, string or number
\*   no_field         an object without translated_subtitles
\*   scalar_field     an object whose translated_subtitles is null or a number
\*   array            an object whose translated_subtitles is the array `items`
Response(shape, items) == [shape |-> shape, items |-> items]

ArrayResponse(p, v, len, off) ==
    Response("array", [k \in 1..len |-> Entry(ShapeAt(p, k), v, off + k)])

\* What the service may answer to a request for the n cues after cue `off`.
ServiceResponses(n, off) ==
    {Response("invalid_json", <<>>), Response("non_object_root", <<>>),
     Response("no_field", <<>>), Response("scalar_field", <<>>)}
    \cup {ArrayResponse(p, v, n, off) : p \in Patterns, v \in 1..MaxVariants}
    \cup {ArrayResponse("full", 1, len, off) : len \in {n - 1, n + 1}}

NoResponse == Response("none", <<>>)

\* How a response stands against the contract, for a batch of n cues.
ResponseClass(r, n) ==
    CASE r.shape = "invalid_json"    -> "undecodable"
      [] r.shape = "non_object_root" -> "wrong_shape"
      [] r.shape = "scalar_field"    -> "wrong_shape"
      [] r.shape = "no_field"        -> IF n = 0 THEN "valid" ELSE "mismatch"
      [] r.shape = "array"           -> IF Len(r.items) = n THEN "valid" ELSE "mismatch"
      [] OTHER                       -> "none"

\* ---------------------------------------------------------------- requests
SystemPrompt(lang) == <<"subtitle translation instructions", lang>>

\* str(json_input): the ordered source texts and their count.
UserPayload(batch) ==
    [subtitles |-> [k \in 1..Len(batch) |-> batch[k].text], count |-> Len(batch)]

InitialRequest(batch, lang) ==
    [model |-> translation_model, system |-> SystemPrompt(lang),
     user |-> UserPayload(batch), temperature |-> 1,
     token_param |-> "max_completion_tokens", token_limit |-> 4000,
     response_format |-> "json_object"]

RetryRequest(batch, lang) ==
    [model |-> translation_model, system |-> SystemPrompt(lang),
     user |-> UserPayload(batch), temperature |-> 1,
     token_param |-> "max_tokens", token_limit |-> 4000,
     response_format |-> "json_object"]

\* ------------------------------------------------- decoding and validation
\* json.loads raises JSONDecodeError.
JsonLoadsRaises(tj) == tj.shape = "invalid_json"

\* result.get(...) on a root that is no dict raises AttributeError.
GetRaises(tj) == tj.shape = "non_object_root"

\* result.get('translated_subtitles', []).
GetItems(tj) == IF tj.shape = "array" THEN tj.items ELSE <<>>

\* len(translated_items) on null or a number raises TypeError.
LenRaises(tj) == tj.shape = "scalar_field"

\* A validation that also turns down arrays with an entry lacking `translated`.
LengthMatchesAndComplete(items, batch) ==
    Len(items) = Len(batch) /\ \A k \in 1..Len(items) : items[k].has_translated

LengthMatches(items, batch) == Len(items) = Len(batch)

\* A decoder that indexes result['translated_subtitles'] instead of using .get.
ParseOutcomeIndexed(tj, batch) ==
    IF tj.shape = "invalid_json" THEN "json_decode_error"
    ELSE IF tj.shape \in {"non_object_root", "scalar_field", "no_field"} THEN "other_exception"
    ELSE IF Len(tj.items) = Len(batch) THEN "match"
    ELSE "mismatch"

\* What one pass through the body of the while loop finds.
ParseOutcome(tj, batch) ==
    IF JsonLoadsRaises(tj) THEN "json_decode_error"
    ELSE IF GetRaises(tj) \/ LenRaises(tj) THEN "other_exception"
    ELSE IF LengthMatches(GetItems(tj), batch) THEN "match"
    ELSE "mismatch"

\* A selection that passes over an empty `translated` value.
ResolveTextNonEmpty(item, sub) ==
    IF item.isdict /\ item.has_translated /\ item.translated # "" THEN item.translated
    ELSE IF item.isdict /\ item.has_original THEN item.original
    ELSE sub.text

ResolveText(item, sub) ==
    IF item.isdict /\ item.has_translated THEN item.translated
    ELSE IF item.isdict /\ item.has_original THEN item.original
    ELSE sub.text

\* A reassembly that copies the start time into both ends of the interval.
TranslatedCueOneTime(item, sub) ==
    [start_time |-> sub.start_time, end_time |-> sub.start_time,
     text |-> ResolveText(item, sub)]

TranslatedCue(item, sub) ==
    [start_time |-> sub.start_time, end_time |-> sub.end_time,
     text |-> ResolveText(item, sub)]

Reassemble(items, batch) ==
    [k \in 1..Len(batch) |-> TranslatedCue(items[k], batch[k])]

\* A loop bound that lets one more retry through.
RetryAllowedOneMore(rc) == rc <= max_retries + 1

RetryAllowed(rc) == rc <= max_retries

\* A retry that forgets to take the new response text.
UpdatedJsonStale(old, r) == old

\* translated_json = response.choices[0].message.content.strip(), after a retry.
UpdatedJson(old, r) == r

\* --------------------------------------------------------------- the state
NoFile == <<[start_time |-> -1, end_time |-> -1, text |-> "no file"]>>

\* A slice that stops one cue early.
BatchOneShort(subs, from) == SubSeq(subs, from + 1, Min(from + batch_size - 1, Len(subs)))

\* subtitles[i:i + batch_size]
Batch(subs, from) == SubSeq(subs, from + 1, Min(from + batch_size, Len(subs)))

CurrentBatch == Batch(subtitles, i)

\* File sizes tried: empty and short files, a full batch, and files that
\* need a second batch.
CueCounts == {0, 1, 2, 3} \cup (batch_size..MaxCues)

\* The video processor is not running.
VideoIdle ==
    /\ disk = <<>>
    /\ walk = <<>>
    /\ burn = <<>>
    /\ ffmpeg_runs = <<>>
    /\ compose = <<>>
    /\ codec = <<>>

\* The translator is not running.
TranslatorIdle ==
    /\ subtitles = <<>>
    /\ i = 0
    /\ translated_subtitles = <<>>
    /\ pc = "idle"
    /\ retry_count = 0
    /\ translated_json = NoResponse
    /\ requests = <<>>
    /\ svc_log = <<>>
    /\ last_response = NoResponse
    /\ total_calls = 0
    /\ error = "none"
    /\ output_file = NoFile

Init ==
    /\ subtitles \in {InputCues(n) : n \in CueCounts}
    /\ i = 0
    /\ translated_subtitles = <<>>
    /\ pc = "loop"
    /\ retry_count = 0
    /\ translated_json = NoResponse
    /\ requests = <<>>
    /\ svc_log = <<>>
    /\ last_response = NoResponse
    /\ total_calls = 0
    /\ error = "none"
    /\ output_file = NoFile
    /\ VideoIdle

\* The service answers the request just issued with r; the loop will decode tj.
ServiceReturns(r, tj) ==
    /\ translated_json' = tj
    /\ last_response' = r
    /\ pc' = "parse"
    /\ error' = "none"

\* A handler that swallows the service's exception and lets the loop go on.
ServiceRaisesSwallowed ==
    /\ pc' = "parse"
    /\ error' = "api_error"
    /\ UNCHANGED <<translated_json, last_response>>

\* client.chat.completions.create raises; the outer handler re-raises.
ServiceRaises ==
    /\ pc' = "failed"
    /\ error' = "api_error"
    /\ UNCHANGED <<translated_json, last_response>>

\* A counter that carries over from the batch before.
CarriedRetryCount == retry_count

\* retry_count = 0 at the head of every call of _translate_batch
InitialRetryCount == 0

\* _translate_subtitles takes the next batch and _translate_batch issues its
\* first request.
BeginBatch ==
    /\ pc = "loop"
    /\ UNCHANGED video_vars
    /\ i < Len(subtitles)
    /\ requests' = <<InitialRequest(CurrentBatch, target_language)>>
    /\ total_calls' = total_calls + 1
    /\ retry_count' = InitialRetryCount
    /\ \/ /\ \E r \in ServiceResponses(Len(CurrentBatch), i) :
                /\ ServiceReturns(r, r)
                /\ svc_log' = <<ResponseClass(r, Len(CurrentBatch))>>
       \/ /\ ServiceRaises
          /\ svc_log' = <<>>
    /\ UNCHANGED <<subtitles, i, translated_subtitles, output_file>>

\* The retry branch shared by the two rejecting arms of the loop body.
RetryOrFail(exhausted) ==
    /\ retry_count' = retry_count + 1
    /\ IF RetryAllowed(retry_count + 1)
       THEN /\ requests' = Append(requests, RetryRequest(CurrentBatch, target_language))
            /\ total_calls' = total_calls + 1
            /\ \/ /\ \E r \in ServiceResponses(Len(CurrentBatch), i) :
                        /\ ServiceReturns(r, UpdatedJson(translated_json, r))
                        /\ svc_log' = Append(svc_log, ResponseClass(r, Len(CurrentBatch)))
               \/ /\ ServiceRaises
                  /\ UNCHANGED svc_log
       ELSE /\ pc' = "failed"
            /\ error' = exhausted
            /\ UNCHANGED <<requests, total_calls, translated_json, last_response, svc_log>>
    /\ UNCHANGED <<subtitles, i, translated_subtitles, output_file>>

\* One pass through the body of `while retry_count <= max_retries`.
LoopIteration ==
    /\ pc = "parse"
    /\ UNCHANGED video_vars
    /\ RetryAllowed(retry_count)
    /\ LET outcome == ParseOutcome(translated_json, CurrentBatch) IN
       CASE outcome = "match" ->
                /\ translated_subtitles' =
                       translated_subtitles \o Reassemble(GetItems(translated_json), CurrentBatch)
                /\ i' = i + batch_size
                /\ pc' = "loop"
                /\ UNCHANGED <<subtitles, retry_count, translated_json, requests, svc_log,
                               last_response, total_calls, error, output_file>>
         [] outcome = "mismatch" -> RetryOrFail("line_count_mismatch")
         [] outcome = "json_decode_error" -> RetryOrFail("json_unparseable")
         [] outcome = "other_exception" ->
                /\ pc' = "failed"
                /\ error' = "unexpected_exception"
                /\ UNCHANGED <<subtitles, i, translated_subtitles, retry_count, translated_json,
                               requests, svc_log, last_response, total_calls, output_file>>

\* A caller that writes whatever has been collected, failure or not.
CanWriteAnyway == (pc = "loop" /\ i >= Len(subtitles)) \/ pc = "failed"

CanWrite == pc = "loop" /\ i >= Len(subtitles)

\* translate_subtitle_file writes the translated cues once every batch is in.
WriteOutput ==
    /\ CanWrite
    /\ UNCHANGED video_vars
    /\ output_file' = translated_subtitles
    /\ pc' = "done"
    /\ UNCHANGED <<subtitles, i, translated_subtitles, retry_count, translated_json,
                   requests, svc_log, last_response, total_calls, error>>

Next == BeginBatch \/ LoopIteration \/ WriteOutput

Spec == Init /\ [][Next]_vars

\* The pipeline is one synchronous thread: a step that can be taken is taken.
FairSpec == Spec /\ WF_vars(Next)

\* ===================================================== the video processor
\* ------------------------------------------------------ times and SRT lines
\* Times are counted in milliseconds.
MaxTrackCues == 3

\* epsilon: float = 0.02
epsilon == 20

\* A printed time HH:MM:SS,mmm, by the numbers its four fields show.  The
\* fields are printed with a minimum width (02d, 03d): a negative hour prints
\* as "-1" and 1000 milliseconds print as the four digits "1000".
TimeStr(h, m, s, ms) == [h |-> h, m |-> m, s |-> s, ms |-> ms]

\* The time text of a file for the millisecond-aligned time t.
Stamp(t) == TimeStr(t \div 3600000, (t % 3600000) \div 60000, (t % 60000) \div 1000, t % 1000)

\* float("SS.mmm"): the digits after the point are a decimal fraction, so the
\* four digits "1000" stand for 100 ms.
FractionMs(ms) == IF ms > 999 THEN ms \div 10 ELSE ms

\* _parse_time_srt
ParseTimeSrt(ts) == ts.h * 3600000 + ts.m * 60000 + ts.s * 1000 + FractionMs(ts.ms)

\* A float time: `ms` is the millisecond value it stands for, `short` says
\* that the double lies just below that value.
FloatTime(ms, short) == [ms |-> ms, short |-> short]

\* Start times t below 200 s for which the double t/1000 - 0.02 is smaller
\* than the whole second (t - 20)/1000 (IEEE 754 binary64: 4.02 - 0.02 is
\* 3.9999999999999996).
FloatShortfall == {4020, 64020}

\* start - epsilon
MinusEpsilon(start) == FloatTime(start - epsilon, start \in FloatShortfall)

\* _format_time_srt: floor divisions (a double just below a multiple falls
\* into the step before it), int() and round() of the fraction.
FormatTimeSrt(v) ==
    LET e == IF v.short THEN v.ms - 1 ELSE v.ms
    IN  TimeStr(e \div 3600000,
                (e % 3600000) \div 60000,
                (e % 60000) \div 1000,
                (e % 1000) + (IF v.short THEN 1 ELSE 0))

NoTime == TimeStr(0, 0, 0, 0)

\* The lines of a subtitle file as splitlines() returns them.
IndexLine(n)    == [kind |-> "index", n |-> n, t1 |-> NoTime, t2 |-> NoTime, text |-> ""]
TimeLine(a, b)  == [kind |-> "time",  n |-> 0, t1 |-> a,      t2 |-> b,      text |-> ""]
TextLine(s)     == [kind |-> "text",  n |-> 0, t1 |-> NoTime, t2 |-> NoTime, text |-> s]
BlankLine       == [kind |-> "blank", n |-> 0, t1 |-> NoTime, t2 |-> NoTime, text |-> ""]

\* \d{2}:\d{2}:\d{2},\d{3} at the head of a printed time.
TimeRe(ts) == ts.h \in 0..99 /\ ts.m \in 0..99 /\ ts.s \in 0..99 /\ ts.ms >= 0

\* The regular expression of a time line: the first time must be followed by
\* the arrow at once, the second one may have more text behind it.
TimeLineRe(line) ==
    /\ line.kind = "time"
    /\ TimeRe(line.t1)
    /\ line.t1.ms <= 999
    /\ TimeRe(line.t2)

\* ------------------------------------------------------------ input tracks
\* Times at which the cues of a track may start and end: cues that overlap,
\* touch, lie apart, start together, start at 0 and start at 4.02 s.
StartPoints == {0, 1000, 2500, 4020}
EndPoints == {2500, 3000, 5000}

\* A cue of a track: a start and a later end.  The cues of a file may come
\* in any order.
TrackCues == {c \in [start_time : StartPoints, end_time : EndPoints] : c.start_time < c.end_time}

Tracks == UNION {[1..n -> TrackCues] : n \in 0..MaxTrackCues}

\* The lines of an SRT file from cue k on: four lines a cue, the text of
\* cue k being prefix \o k.
RECURSIVE SrtLines(_, _, _)
SrtLines(track, prefix, k) ==
    IF k > Len(track) THEN <<>>
    ELSE <<IndexLine(k), TimeLine(Stamp(track[k].start_time), Stamp(track[k].end_time)),
           TextLine(prefix \o ToString(k)), BlankLine>> \o SrtLines(track, prefix, k + 1)

SrtFile(track) == SrtLines(track, "w", 1)

\* ------------------------------------------------------- reading the cues
\* Line k is the second line of a block of at least three lines and holds
\* an arrow.
IsCueTimeLine(lines, k) ==
    /\ k >= 2
    /\ k + 1 <= Len(lines)
    /\ lines[k].kind = "time"
    /\ lines[k - 1].kind # "blank"
    /\ (k = 2 \/ lines[k - 2].kind = "blank")
    /\ lines[k + 1].kind # "blank"

\* VideoProcessor._read_subtitle_file on an SRT file whose cues have one
\* line of text.
ReadCues(lines) ==
    LET at == SelectSeq([k \in 1..Len(lines) |-> k], LAMBDA k : IsCueTimeLine(lines, k))
    IN  [j \in 1..Len(at) |->
            [start_time |-> ParseTimeSrt(lines[at[j]].t1),
             end_time   |-> ParseTimeSrt(lines[at[j]].t2),
             text       |-> lines[at[j] + 1].text]]

\* ------------------------------------------------------------ _deoverlap_srt
\* Optional values: None is the empty sequence.
None == <<>>
Some(x) == <<x>>

\* A test that lets overlapping cues through.
OverlapsNever(start, prev_end) == FALSE

\* A test that takes touching cues for overlapping ones.
OverlapsOrTouches(start, prev_end) == prev_end # None /\ start <= prev_end[1]

\* prev_end is not None and start < prev_end
Overlaps(start, prev_end) == prev_end # None /\ start < prev_end[1]

\* An end put after the start of the next cue.
NewPrevEndLate(start) == FloatTime(start + epsilon, FALSE)

\* new_prev_end, with the guard of lines 195-196 (which start - epsilon can
\* never pass).
NewPrevEnd(start) ==
    IF MinusEpsilon(start).ms > start THEN MinusEpsilon(start) ELSE MinusEpsilon(start)

\* The previous time line with its end replaced, if it still matches.
RewritePrev(out, idx, start) ==
    IF idx >= 0 /\ TimeLineRe(out[idx + 1])
    THEN [out EXCEPT ![idx + 1] = TimeLine(out[idx + 1].t1, FormatTimeSrt(NewPrevEnd(start)))]
    ELSE out

\* The text lines from position k (0-based) up to the next blank line.
RECURSIVE TextRun(_, _)
TextRun(content, k) ==
    IF k < Len(content) /\ content[k + 1].kind # "blank"
    THEN <<content[k + 1]>> \o TextRun(content, k + 1)
    ELSE <<>>

\* The locals of a call of _deoverlap_srt.
WalkState(pc_, path, content, i_, out, pe, idx, tmp) ==
    [pc |-> pc_, srt_path |-> path, content |-> content, i |-> i_, out_lines |-> out,
     prev_end |-> pe, prev_time_line_index |-> idx, tmp |-> tmp]

\* One pass through the body of `while i < len(content)`.
WalkBody(w) ==
    LET line == w.content[w.i + 1]
        out1 == Append(w.out_lines, line)
        i1   == w.i + 1
    IN  IF line.kind # "index"
        THEN [w EXCEPT !.out_lines = out1, !.i = i1]
        ELSE IF i1 >= Len(w.content)
        THEN [w EXCEPT !.out_lines = out1, !.i = i1]
        ELSE LET tline == w.content[i1 + 1] IN
             IF ~TimeLineRe(tline)
             THEN [w EXCEPT !.out_lines = Append(out1, tline), !.i = i1 + 1]
             ELSE LET start == ParseTimeSrt(tline.t1)
                      end   == ParseTimeSrt(tline.t2)
                      out2  == IF Overlaps(start, w.prev_end)
                               THEN RewritePrev(out1, w.prev_time_line_index, start)
                               ELSE out1
                      out3  == Append(out2, TimeLine(FormatTimeSrt(FloatTime(start, FALSE)),
                                                     FormatTimeSrt(FloatTime(end, FALSE))))
                      run   == TextRun(w.content, i1 + 1)
                  IN  [w EXCEPT !.out_lines = out3 \o run \o <<BlankLine>>,
                                !.prev_time_line_index = Len(out3) - 1,
                                !.i = i1 + 1 + Len(run),
                                !.prev_end = Some(end)]

\* "\n".join(out_lines) read back with splitlines(): a last empty line is lost.
WrittenLines(out) ==
    IF out # <<>> /\ out[Len(out)].kind = "blank" THEN SubSeq(out, 1, Len(out) - 1) ELSE out

RECURSIVE WalkLoop(_)
WalkLoop(w) == IF w.i < Len(w.content) THEN WalkLoop(WalkBody(w)) ELSE w

\* The lines of the file that _deoverlap_srt writes for a file of `content`.
Deoverlapped(content) ==
    WrittenLines(WalkLoop(WalkState("loop", "", content, 0, <<>>, None, -1, "")).out_lines)

\* The input file and the temporary files a call may create.
InputPath == "in.srt"
TmpPaths == <<"tmp1.srt", "tmp2.srt">>
TmpCount == Cardinality({k \in 1..Len(TmpPaths) : TmpPaths[k] \in DOMAIN disk})

NotWalking == WalkState("idle", "", <<>>, 0, <<>>, None, -1, "")

DeoverlapInit ==
    /\ \E track \in Tracks : disk = (InputPath :> SrtFile(track))
    /\ walk = NotWalking
    /\ burn = <<>>
    /\ ffmpeg_runs = <<>>
    /\ compose = <<>>
    /\ codec = <<>>
    /\ TranslatorIdle

\* _deoverlap_srt(srt_path): the file is read and the locals are set up.
\* It is called on the input file, then on the file it returned.
DeoverlapCall ==
    /\ walk.pc \in {"idle", "returned"}
    /\ TmpCount < Len(TmpPaths)
    /\ LET path == IF walk.pc = "idle" THEN InputPath ELSE walk.tmp
       IN  walk' = WalkState("loop", path, disk[path], 0, <<>>, None, -1, "")
    /\ UNCHANGED <<disk, burn, ffmpeg_runs, translator_vars, compose, codec>>

DeoverlapIteration ==
    /\ walk.pc = "loop"
    /\ walk.i < Len(walk.content)
    /\ walk' = WalkBody(walk)
    /\ UNCHANGED <<disk, burn, ffmpeg_runs, translator_vars, compose, codec>>

\* The loop is over: the lines go to a new temporary file, whose name is returned.
DeoverlapReturn ==
    /\ walk.pc = "loop"
    /\ walk.i >= Len(walk.content)
    /\ LET tmp == TmpPaths[TmpCount + 1]
       IN  /\ disk' = disk @@ (tmp :> WrittenLines(walk.out_lines))
           /\ walk' = [walk EXCEPT !.pc = "returned", !.tmp = tmp]
    /\ UNCHANGED <<burn, ffmpeg_runs, translator_vars, compose, codec>>

DeoverlapNext == DeoverlapCall \/ DeoverlapIteration \/ DeoverlapReturn

DeoverlapSpec == DeoverlapInit /\ [][DeoverlapNext]_vars

\* ---------------------------------------------------------- burning tracks
\* chinese_font_size: int = 20, english_font_size: int = 16
chinese_font_size == 20
english_font_size == 16

VideoPath == "video.mp4"
ChinesePath == "chi.srt"
EnglishPath == "eng.srt"

\* The content of a video file.
VideoFile == <<[kind |-> "binary", n |-> 0, t1 |-> NoTime, t2 |-> NoTime, text |-> ""]>>

Exists(path) == path \in DOMAIN disk

\* _color_to_hex, as the number its six hex digits stand for.
ColorToHex(color_name) ==
    CASE color_name = "white"  -> 16777215
      [] color_name = "black"  -> 0
      [] color_name = "red"    -> 16711680
      [] color_name = "green"  -> 65280
      [] color_name = "blue"   -> 255
      [] color_name = "yellow" -> 16776960
      [] OTHER                 -> 16777215

\* A force_style string: its `Key=value` items in the order written.
StyleItem(k, v) == [key |-> k, value |-> v]

\* ",PlayResY=..." is added when play_res_y is given.
WithPlayResY(style, play_res_y) ==
    IF play_res_y = None THEN style
    ELSE Append(style, StyleItem("PlayResY", play_res_y[1]))

\* eng_style of burn_bilingual_subtitle
EngStyle(wrap_style, play_res_y) ==
    WithPlayResY(<<StyleItem("FontSize", english_font_size),
                   StyleItem("PrimaryColour", ColorToHex("yellow")),
                   StyleItem("Alignment", 2),
                   StyleItem("WrapStyle", wrap_style),
                   StyleItem("MarginV", 40)>>, play_res_y)

\* chi_style of burn_bilingual_subtitle
ChiStyle(wrap_style, play_res_y) ==
    WithPlayResY(<<StyleItem("FontSize", chinese_font_size),
                   StyleItem("PrimaryColour", ColorToHex("white")),
                   StyleItem("Alignment", 2),
                   StyleItem("WrapStyle", wrap_style),
                   StyleItem("MarginV", 20)>>, play_res_y)

\* style of burn_english_subtitle (font_size: int = 20)
EnglishOnlyStyle(wrap_style, play_res_y) ==
    WithPlayResY(<<StyleItem("FontSize", 20),
                   StyleItem("PrimaryColour", ColorToHex("white")),
                   StyleItem("Alignment", 2),
                   StyleItem("WrapStyle", wrap_style),
                   StyleItem("MarginV", 20)>>, play_res_y)

\* force_style of burn_subtitle (font_size: int = 24)
BurnSubtitleStyle ==
    <<StyleItem("FontSize", 24), StyleItem("PrimaryColour", ColorToHex("white"))>>

\* One `subtitles=...:force_style=...` stage of the -vf argument: the input
\* file it renders, the file named in the filter, and the style.
Stage(source, track, style) == [source |-> source, track |-> track, style |-> style]

\* The value of `key` in a style.
StyleValue(style, key) ==
    (CHOOSE it \in {style[k] : k \in 1..Len(style)} : it.key = key).value

\* The output file each operation derives from the video's name.
OutputPath(op) ==
    CASE op = "burn_subtitle"           -> "video_burned_subtitles.mp4"
      [] op = "burn_english_subtitle"   -> "video_english.mp4"
      [] op = "burn_bilingual_subtitle" -> "video_bilingual.mp4"

BurnOps == {"burn_subtitle", "burn_english_subtitle", "burn_bilingual_subtitle"}

\* Tracks to burn: one with overlapping cues, one with touching cues.
BurnTracks ==
    {<<[start_time |-> 1000, end_time |-> 3000], [start_time |-> 2500, end_time |-> 5000]>>,
     <<[start_time |-> 0, end_time |-> 2500], [start_time |-> 2500, end_time |-> 5000]>>}

\* A file that may be missing: None, or Some(content).
InitialDisk(video, chi, eng) ==
    [p \in {VideoPath : x \in 1..Len(video)} \cup {ChinesePath : x \in 1..Len(chi)}
            \cup {EnglishPath : x \in 1..Len(eng)}
        |-> CASE p = VideoPath   -> VideoFile
              [] p = ChinesePath -> chi[1]
              [] p = EnglishPath -> eng[1]]

\* The set of the elements of a sequence of at most one element.
Opt(S) == {None} \cup {Some(x) : x \in S}

\* The call of a burn operation and how far it has got.
BurnState(op, pc_, wrap_style, play_res_y, eng_srt, chi_srt, err) ==
    [op |-> op, pc |-> pc_, wrap_style |-> wrap_style, play_res_y |-> play_res_y,
     eng_srt |-> eng_srt, chi_srt |-> chi_srt, error |-> err]

BurnInit ==
    /\ \E video \in Opt({VideoFile}), chi \in Opt({SrtFile(t) : t \in BurnTracks}),
          eng \in Opt({SrtFile(t) : t \in BurnTracks}) :
            disk = InitialDisk(video, chi, eng)
    /\ \E op \in BurnOps, wrap_style \in 0..3, play_res_y \in Opt({720}) :
            burn = BurnState(op, "called", wrap_style, play_res_y, "", "", "none")
    /\ ffmpeg_runs = <<>>
    /\ compose = <<>>
    /\ codec = <<>>
    /\ walk = NotWalking
    /\ TranslatorIdle

\* subprocess.run(cmd, check=True): the transcoder writes the output file,
\* or ends with a non-zero status; it cannot succeed without its input video.
Transcode(stages, ok) ==
    /\ ffmpeg_runs' = Append(ffmpeg_runs,
                             [op |-> burn.op, video |-> VideoPath, stages |-> stages,
                              output |-> OutputPath(burn.op)])
    /\ IF ok
       THEN /\ disk' = [p \in DOMAIN disk \cup {OutputPath(burn.op)} |->
                            IF p = OutputPath(burn.op) THEN VideoFile ELSE disk[p]]
            /\ burn' = [burn EXCEPT !.pc = "returned"]
       ELSE /\ disk' = disk
            /\ burn' = [burn EXCEPT !.pc = "raised", !.error = "CalledProcessError"]

TranscodeOutcomes == IF Exists(VideoPath) THEN {TRUE, FALSE} ELSE {FALSE}

\* eng_srt / chi_srt = self._deoverlap_srt(path): a new temporary file with
\* the deoverlapped lines, or FileNotFoundError from read_text.
DeoverlapTo(path, field) ==
    IF Exists(path)
    THEN LET tmp == TmpPaths[TmpCount + 1]
         IN  /\ disk' = disk @@ (tmp :> Deoverlapped(disk[path]))
             /\ burn' = [burn EXCEPT ![field] = tmp, !.pc = field]
    ELSE /\ disk' = disk
         /\ burn' = [burn EXCEPT !.pc = "raised", !.error = "FileNotFoundError"]

\* burn_subtitle: both files are checked, then the subtitle file is burned.
BurnSubtitle ==
    /\ burn.op = "burn_subtitle"
    /\ burn.pc = "called"
    /\ IF ~Exists(VideoPath) \/ ~Exists(ChinesePath)
       THEN /\ burn' = [burn EXCEPT !.pc = "raised", !.error = "FileNotFoundError"]
            /\ UNCHANGED <<disk, ffmpeg_runs>>
       ELSE \E ok \in TranscodeOutcomes :
                Transcode(<<Stage(ChinesePath, ChinesePath, BurnSubtitleStyle)>>, ok)
    /\ UNCHANGED <<walk, translator_vars, compose, codec>>

\* burn_english_subtitle, line 273
BurnEnglishDeoverlap ==
    /\ burn.op = "burn_english_subtitle"
    /\ burn.pc = "called"
    /\ DeoverlapTo(EnglishPath, "eng_srt")
    /\ UNCHANGED <<ffmpeg_runs, walk, translator_vars, compose, codec>>

\* burn_english_subtitle, lines 275-289
BurnEnglishRun ==
    /\ burn.op = "burn_english_subtitle"
    /\ burn.pc = "eng_srt"
    /\ \E ok \in TranscodeOutcomes :
           Transcode(<<Stage(EnglishPath, burn.eng_srt,
                             EnglishOnlyStyle(burn.wrap_style, burn.play_res_y))>>, ok)
    /\ UNCHANGED <<walk, translator_vars, compose, codec>>

\* burn_bilingual_subtitle, line 236
BurnBilingualDeoverlapEnglish ==
    /\ burn.op = "burn_bilingual_subtitle"
    /\ burn.pc = "called"
    /\ DeoverlapTo(EnglishPath, "eng_srt")
    /\ UNCHANGED <<ffmpeg_runs, walk, translator_vars, compose, codec>>

\* burn_bilingual_subtitle, line 237
BurnBilingualDeoverlapChinese ==
    /\ burn.op = "burn_bilingual_subtitle"
    /\ burn.pc = "eng_srt"
    /\ DeoverlapTo(ChinesePath, "chi_srt")
    /\ UNCHANGED <<ffmpeg_runs, walk, translator_vars, compose, codec>>

\* burn_bilingual_subtitle, lines 239-260: the English stage, then the Chinese one.
BurnBilingualRun ==
    /\ burn.op = "burn_bilingual_subtitle"
    /\ burn.pc = "chi_srt"
    /\ \E ok \in TranscodeOutcomes :
           Transcode(<<Stage(EnglishPath, burn.eng_srt,
                             EngStyle(burn.wrap_style, burn.play_res_y)),
                       Stage(ChinesePath, burn.chi_srt,
                             ChiStyle(burn.wrap_style, burn.play_res_y))>>, ok)
    /\ UNCHANGED <<walk, translator_vars, compose, codec>>

BurnNext ==
    \/ BurnSubtitle
    \/ BurnEnglishDeoverlap
    \/ BurnEnglishRun
    \/ BurnBilingualDeoverlapEnglish
    \/ BurnBilingualDeoverlapChinese
    \/ BurnBilingualRun

BurnSpec == BurnInit /\ [][BurnNext]_vars

\* ------------------------------------------------- the bilingual ASS file
MaxComposeCues == 2

\* Times of the cues given to create_bilingual_subtitle_file: starts 0.3 s
\* and 0.5 s apart, ends equal and 0.5 s apart.
ComposeCues == [start_time : {200, 700, 1000}, end_time : {3000, 3500}]

ComposeTracks == UNION {[1..n -> ComposeCues] : n \in 0..MaxComposeCues}

\* Pairs of times of the model that lie exactly 0.5 s apart and whose
\* difference as doubles is smaller than 0.5 (0.7 - 0.2 is 0.49999999999999994).
FloatBelowHalf == {<<200, 700>>, <<700, 200>>}

\* abs(a - b) < 0.5 on the parsed times
CloserThanHalf(a, b) == (a - b < 500 /\ b - a < 500) \/ <<a, b>> \in FloatBelowHalf

\* The condition of lines 348-349.
Matches(eng_sub, chinese_sub) ==
    /\ CloserThanHalf(eng_sub.start_time, chinese_sub.start_time)
    /\ CloserThanHalf(eng_sub.end_time, chinese_sub.end_time)

\* english_text after the inner loop: the text of the first match, or "".
EnglishText(english_subtitles, chinese_sub) ==
    LET hits == {k \in 1..Len(english_subtitles) : Matches(english_subtitles[k], chinese_sub)}
    IN  IF hits = {} THEN ""
        ELSE english_subtitles[CHOOSE k \in hits : \A h \in hits : k <= h].text

\* _format_time_ass for times that are multiples of 10 ms: H:MM:SS.cc
FormatTimeAss(t) ==
    [h |-> t \div 3600000, m |-> (t % 3600000) \div 60000, cs |-> (t % 60000) \div 10]

\* The pieces of the Text field of a Dialogue line.
FontSizeTag(fs, colour) == [tok |-> "override", fs |-> fs, colour |-> colour, text |-> ""]
TextPiece(s)            == [tok |-> "text",     fs |-> 0,  colour |-> "",     text |-> s]
BreakMarker             == [tok |-> "break",    fs |-> 0,  colour |-> "",     text |-> ""]

\* A composer that writes the break marker in every line.
DialogueTextAlwaysTwo(chinese_text, english_text) ==
    <<FontSizeTag(28, ""), TextPiece(chinese_text), BreakMarker,
      FontSizeTag(20, "&H00FFFF&"), TextPiece(english_text)>>

\* The text of subtitle_line, lines 354-364.
DialogueText(chinese_text, english_text) ==
    IF english_text # ""
    THEN <<FontSizeTag(28, ""), TextPiece(chinese_text), BreakMarker,
           FontSizeTag(20, "&H00FFFF&"), TextPiece(english_text)>>
    ELSE <<FontSizeTag(28, ""), TextPiece(chinese_text)>>

\* _create_ass_header: the script header with the Default style (size 28).
AssHeader ==
    [start |-> FormatTimeAss(0), end |-> FormatTimeAss(0),
     text |-> <<[tok |-> "header", fs |-> 28, colour |-> "&H00FFFFFF", text |-> "Default"]>>]

Dialogue(chinese_sub, english_text) ==
    [start |-> FormatTimeAss(chinese_sub.start_time),
     end   |-> FormatTimeAss(chinese_sub.end_time),
     text  |-> DialogueText(chinese_sub.text, english_text)]

\* The call of create_bilingual_subtitle_file and its locals; `found` keeps
\* the english_text of every pass of the loop.
ComposeState(pc_, given, chi, eng, lines, found, out, err) ==
    [pc |-> pc_, english_given |-> given, chinese_subtitles |-> chi,
     english_subtitles |-> eng, ass_lines |-> lines, found |-> found,
     output_file |-> out, error |-> err]

\* english_subtitle_file is None, names a missing file, or names a file.
ComposeInit ==
    /\ \E chi \in Opt(ComposeTracks), eng \in Opt(ComposeTracks), given \in BOOLEAN :
          /\ given \/ eng = None
          /\ disk = InitialDisk(None,
                                IF chi = None THEN None ELSE Some(SrtLines(chi[1], "c", 1)),
                                IF eng = None THEN None ELSE Some(SrtLines(eng[1], "e", 1)))
          /\ compose = ComposeState("called", given, <<>>, <<>>, <<>>, <<>>, "", "none")
    /\ walk = NotWalking
    /\ burn = <<>>
    /\ codec = <<>>
    /\ ffmpeg_runs = <<>>
    /\ TranslatorIdle

\* Lines 309-334: the Chinese file must exist; both tracks are read.
ComposeRead ==
    /\ compose.pc = "called"
    /\ IF ~Exists(ChinesePath)
       THEN compose' = [compose EXCEPT !.pc = "raised", !.error = "FileNotFoundError"]
       ELSE compose' = [compose EXCEPT
                !.pc = "loop",
                !.output_file = IF compose.english_given THEN "chi_bilingual.ass"
                                ELSE "chi_chinese.ass",
                !.chinese_subtitles = ReadCues(disk[ChinesePath]),
                !.english_subtitles = IF compose.english_given /\ Exists(EnglishPath)
                                      THEN ReadCues(disk[EnglishPath]) ELSE <<>>]
    /\ UNCHANGED <<disk, walk, burn, ffmpeg_runs, translator_vars, codec>>

\* One pass of `for i, chinese_sub in enumerate(chinese_subtitles)`.
ComposeIteration ==
    /\ compose.pc = "loop"
    /\ Len(compose.ass_lines) < Len(compose.chinese_subtitles)
    /\ LET chinese_sub == compose.chinese_subtitles[Len(compose.ass_lines) + 1]
           english_text == EnglishText(compose.english_subtitles, chinese_sub)
       IN  compose' = [compose EXCEPT
                !.ass_lines = Append(@, Dialogue(chinese_sub, english_text)),
                !.found = Append(@, english_text)]
    /\ UNCHANGED <<disk, walk, burn, ffmpeg_runs, translator_vars, codec>>

\* Lines 371-377: the header and the Dialogue lines are written.
ComposeWrite ==
    /\ compose.pc = "loop"
    /\ Len(compose.ass_lines) = Len(compose.chinese_subtitles)
    /\ disk' = [p \in DOMAIN disk \cup {compose.output_file} |->
                    IF p = compose.output_file THEN <<AssHeader>> \o compose.ass_lines
                    ELSE disk[p]]
    /\ compose' = [compose EXCEPT !.pc = "returned"]
    /\ UNCHANGED <<walk, burn, ffmpeg_runs, translator_vars, codec>>

ComposeNext == ComposeRead \/ ComposeIteration \/ ComposeWrite

ComposeSpec == ComposeInit /\ [][ComposeNext]_vars

\* ===================================================== the subtitle codecs
\* SubtitleTranslator._read_subtitle_file / _write_subtitle_file and
\* VideoProcessor._read_subtitle_file, on files given line by line.
MaxFileBlocks == 2

\* A line that is no index, time, text or blank line of an SRT file:
\*   vtt_time     HH:MM:SS.mmm --> HH:MM:SS.mmm
\*   tight_arrow  HH:MM:SS,mmm-->HH:MM:SS,mmm (no blanks around the arrow)
\*   bad_time     00:0x:SS,mmm --> HH:MM:SS,mmm (a letter among the digits)
\*   webvtt       the WEBVTT header
\*   note         a line that starts with NOTE
MarkLine(kind, a, b, s) == [kind |-> kind, n |-> 0, t1 |-> a, t2 |-> b, text |-> s]

\* The characters of a line that stands where text is expected.
LineText(line) == IF line.kind = "index" THEN ToString(line.n) ELSE line.text

\* A time as the translator keeps it: the string with its separator.
TimeString(sep, ts) == [sep |-> sep, at |-> ts]

\* str.replace('.', ',') on a time string
ReplacePoint(t) == TimeString(",", t.at)

\* str.strip() for blanks
RECURSIVE Strip(_)
Strip(s) ==
    IF Len(s) > 0 /\ SubSeq(s, 1, 1) = " " THEN Strip(SubSeq(s, 2, Len(s)))
    ELSE IF Len(s) > 0 /\ SubSeq(s, Len(s), Len(s)) = " " THEN Strip(SubSeq(s, 1, Len(s) - 1))
    ELSE s

\* ' '.join(lines[k - 1:])
RECURSIVE JoinTexts(_, _)
JoinTexts(lines, k) ==
    IF k > Len(lines) THEN ""
    ELSE IF k = Len(lines) THEN LineText(lines[k])
    ELSE LineText(lines[k]) \o " " \o JoinTexts(lines, k + 1)

\* content.strip() cut at '\n\n', each block stripped and cut at '\n': the
\* runs of lines between blank lines (`cur` is the run being collected).
RECURSIVE SplitBlocks(_, _, _)
SplitBlocks(lines, k, cur) ==
    LET done == IF cur = <<>> THEN <<>> ELSE <<cur>>
    IN  IF k > Len(lines) THEN done
        ELSE IF lines[k].kind = "blank" THEN done \o SplitBlocks(lines, k + 1, <<>>)
        ELSE SplitBlocks(lines, k + 1, Append(cur, lines[k]))

\* (\d{2}:\d{2}:\d{2},\d{3}) --> (\d{2}:\d{2}:\d{2},\d{3}) at the head of a line
SrtArrowRe(line) == line.kind = "time" /\ TimeRe(line.t1) /\ line.t1.ms <= 999 /\ TimeRe(line.t2)

\* SubtitleTranslator._parse_srt_content
ParseSrtContent(lines) ==
    LET blocks == SelectSeq(SplitBlocks(lines, 1, <<>>),
                            LAMBDA b : Len(b) >= 3 /\ SrtArrowRe(b[2]))
    IN  [j \in 1..Len(blocks) |->
            [start_time |-> TimeString(",", blocks[j][2].t1),
             end_time   |-> TimeString(",", blocks[j][2].t2),
             text       |-> Strip(JoinTexts(blocks[j], 3))]]

\* (\d{2}:\d{2}:\d{2}\.\d{3}) --> (\d{2}:\d{2}:\d{2}\.\d{3})
VttArrowRe(line) == line.kind = "vtt_time" /\ TimeRe(line.t1) /\ line.t1.ms <= 999 /\ TimeRe(line.t2)

\* current_cue = {start_time, end_time, text: ''} of _parse_vtt_content
VttCue(line) ==
    [start_time |-> ReplacePoint(TimeString(".", line.t1)),
     end_time   |-> ReplacePoint(TimeString(".", line.t2)),
     text       |-> ""]

\* SubtitleTranslator._parse_vtt_content from line k on; cur is current_cue
\* (None before the first time line, when in_cue is False).
RECURSIVE ParseVttContent(_, _, _, _)
ParseVttContent(lines, k, subs, cur) ==
    IF k > Len(lines)
    THEN IF cur = None THEN subs ELSE Append(subs, [cur[1] EXCEPT !.text = Strip(@)])
    ELSE IF lines[k].kind = "blank" THEN ParseVttContent(lines, k + 1, subs, cur)
    ELSE IF VttArrowRe(lines[k])
         THEN ParseVttContent(lines, k + 1, subs \o cur, Some(VttCue(lines[k])))
    ELSE IF cur # None /\ lines[k].kind \notin {"webvtt", "note"}
         THEN ParseVttContent(lines, k + 1, subs,
                              Some([cur[1] EXCEPT !.text = @ \o LineText(lines[k]) \o " "]))
    ELSE ParseVttContent(lines, k + 1, subs, cur)

\* SubtitleTranslator._read_subtitle_file: the parser goes by the suffix.
ReadSubtitleFile(suffix, lines) ==
    CASE suffix = ".srt" -> ParseSrtContent(lines)
      [] suffix = ".vtt" -> ParseVttContent(lines, 1, <<>>, None)
      [] OTHER           -> <<>>

\* A writer that puts a header line at the head of the file.
RECURSIVE WriteWithHeader(_, _)
WriteWithHeader(subs, k) ==
    IF k > Len(subs) THEN <<MarkLine("webvtt", NoTime, NoTime, "WEBVTT")>>
    ELSE <<IndexLine(k)>> \o WriteWithHeader(subs, k + 1)

\* _write_subtitle_file from cue k on: "{k}", "{start} --> {end}", "{text}"
\* and an empty line, whatever the suffix of the file.
RECURSIVE WriteSubtitleFile(_, _)
WriteSubtitleFile(subs, k) ==
    IF k > Len(subs) THEN <<>>
    ELSE <<IndexLine(k),
           IF subs[k].start_time.sep = ","
           THEN TimeLine(subs[k].start_time.at, subs[k].end_time.at)
           ELSE MarkLine("vtt_time", subs[k].start_time.at, subs[k].end_time.at, ""),
           IF subs[k].text = "" THEN BlankLine ELSE TextLine(subs[k].text),
           BlankLine>> \o WriteSubtitleFile(subs, k + 1)

\* VideoProcessor._read_subtitle_file on an .srt file: the blocks of three
\* lines or more whose second line holds an arrow.
ArrowBlocks(lines) ==
    SelectSeq(SplitBlocks(lines, 1, <<>>),
              LAMBDA b : Len(b) >= 3 /\ b[2].kind \in {"time", "vtt_time", "tight_arrow", "bad_time"})

\* time_line.split(' --> ') gives one piece, or int() meets a letter: ValueError.
ReadRaises(lines) ==
    \E j \in 1..Len(ArrowBlocks(lines)) : ArrowBlocks(lines)[j][2].kind \in {"tight_arrow", "bad_time"}

ReadBlocks(lines) ==
    [j \in 1..Len(ArrowBlocks(lines)) |->
        [start_time |-> ParseTimeSrt(ArrowBlocks(lines)[j][2].t1),
         end_time   |-> ParseTimeSrt(ArrowBlocks(lines)[j][2].t2),
         text       |-> JoinTexts(ArrowBlocks(lines)[j], 3)]]

\* ------------------------------------------------------------- input files
\* The blocks of an .srt file: a cue with one or two lines of text, an arrow
\* without blanks, a time with a letter, a block of two lines, and three
\* lines without any arrow.
SrtShapes == {"cue", "cue2", "tight_arrow", "bad_time", "short", "no_arrow"}

\* The blocks of a .vtt file: a cue with one or two lines of text, a comment,
\* a comment right above a cue, and a comment of two lines.
VttShapes == {"cue", "cue2", "note", "noted_cue", "note2"}

\* Block j of a file, by its shape; it starts at j seconds.
BlockLines(shape, j) ==
    LET a == Stamp(1000 * j)
        b == Stamp(1000 * j + 500)
        w == TextLine("w" \o ToString(j))
        x == TextLine("x" \o ToString(j))
        note == MarkLine("note", NoTime, NoTime, "NOTE n" \o ToString(j))
    IN  CASE shape = "cue"         -> <<IndexLine(j), TimeLine(a, b), w>>
          [] shape = "cue2"        -> <<IndexLine(j), TimeLine(a, b), w, x>>
          [] shape = "tight_arrow" -> <<IndexLine(j), MarkLine("tight_arrow", a, b, ""), w>>
          [] shape = "bad_time"    -> <<IndexLine(j), MarkLine("bad_time", NoTime, b, ""), w>>
          [] shape = "short"       -> <<IndexLine(j), TimeLine(a, b)>>
          [] shape = "no_arrow"    -> <<IndexLine(j), w, x>>
          [] shape = "vtt_cue"     -> <<MarkLine("vtt_time", a, b, ""), w>>
          [] shape = "vtt_cue2"    -> <<MarkLine("vtt_time", a, b, ""), w, x>>
          [] shape = "note"        -> <<note>>
          [] shape = "noted_cue"   -> <<note, MarkLine("vtt_time", a, b, ""), w>>
          [] shape = "note2"       -> <<note, x>>

\* The lines of the file whose blocks have the given shapes, from block j on.
RECURSIVE FileLines(_, _, _)
FileLines(suffix, shapes, j) ==
    IF j > Len(shapes) THEN <<>>
    ELSE BlockLines(IF suffix = ".vtt" /\ shapes[j] \in {"cue", "cue2"}
                    THEN "vtt_" \o shapes[j] ELSE shapes[j], j)
         \o <<BlankLine>> \o FileLines(suffix, shapes, j + 1)

Suffixes == {".srt", ".vtt", ".txt"}

\* The files given to the codecs: a .vtt file starts with its header.
CodecFiles(suffix) ==
    {(IF suffix = ".vtt" THEN <<MarkLine("webvtt", NoTime, NoTime, "WEBVTT"), BlankLine>> ELSE <<>>)
        \o FileLines(suffix, shapes, 1) :
     shapes \in UNION {[1..n -> IF suffix = ".vtt" THEN VttShapes ELSE SrtShapes] :
                       n \in 0..MaxFileBlocks}}

\* subtitle_file, and the output_file of translate_subtitle_file:
\* {stem}.{target_language}{suffix}
CodecInput(suffix) == "in" \o suffix
CodecOutput(suffix) == "in" \o "." \o target_language \o suffix

\* ------------------------------------------------- the codecs at work
\* The call on the file: where it stands, the cues read, translated and read
\* back, the requests made to the service, and what the video processor read.
CodecState(pc_, suffix, subs, translated, calls, back, vp, err) ==
    [pc |-> pc_, suffix |-> suffix, subtitles |-> subs, translated |-> translated,
     calls |-> calls, read_back |-> back, vp |-> vp, error |-> err]

CodecInit ==
    /\ \E suffix \in Suffixes : \E lines \in CodecFiles(suffix) :
          /\ disk = (CodecInput(suffix) :> lines)
          /\ codec = CodecState("called", suffix, <<>>, <<>>, 0, <<>>, <<>>, "none")
    /\ walk = <<>>
    /\ burn = <<>>
    /\ ffmpeg_runs = <<>>
    /\ compose = <<>>
    /\ TranslatorIdle

\* translate_subtitle_file, line 34: the input file is read.
CodecRead ==
    /\ codec.pc = "called"
    /\ codec' = [codec EXCEPT !.pc = "read",
                    !.subtitles = ReadSubtitleFile(codec.suffix, disk[CodecInput(codec.suffix)])]
    /\ UNCHANGED <<disk, walk, burn, ffmpeg_runs, compose, translator_vars>>

\* translate_subtitle_file, line 37: _translate_subtitles on the cues read,
\* which fit in one batch.  Without cues the loop body never runs; otherwise
\* the batch takes one to max_retries + 1 requests and ends with the cues
\* reassembled from an accepted response, or the call raises.
CodecTranslate ==
    /\ codec.pc = "read"
    /\ IF codec.subtitles = <<>>
       THEN codec' = [codec EXCEPT !.pc = "translated", !.translated = <<>>]
       ELSE \E r \in ServiceResponses(Len(codec.subtitles), 0), n \in 1..(max_retries + 1) :
                IF ParseOutcome(r, Batch(codec.subtitles, 0)) = "match"
                THEN codec' = [codec EXCEPT
                        !.pc = "translated",
                        !.calls = n,
                        !.translated = Reassemble(GetItems(r), Batch(codec.subtitles, 0))]
                ELSE codec' = [codec EXCEPT !.pc = "raised", !.calls = n,
                                            !.error = "translation_failed"]
    /\ UNCHANGED <<disk, walk, burn, ffmpeg_runs, compose, translator_vars>>

\* translate_subtitle_file, lines 40-44: the output file is written.
CodecWrite ==
    /\ codec.pc = "translated"
    /\ disk' = disk @@ (CodecOutput(codec.suffix) :> WriteSubtitleFile(codec.translated, 1))
    /\ codec' = [codec EXCEPT !.pc = "written"]
    /\ UNCHANGED <<walk, burn, ffmpeg_runs, compose, translator_vars>>

\* _read_subtitle_file on the file just written.
CodecReadBack ==
    /\ codec.pc = "written"
    /\ codec' = [codec EXCEPT !.pc = "read_back",
                    !.read_back = ReadSubtitleFile(codec.suffix, disk[CodecOutput(codec.suffix)])]
    /\ UNCHANGED <<disk, walk, burn, ffmpeg_runs, compose, translator_vars>>

\* VideoProcessor._read_subtitle_file on the input file, an .srt file or a
\* file of another kind (which has no cues for it).
VideoRead ==
    /\ codec.pc = "called"
    /\ codec.suffix # ".vtt"
    /\ LET lines == disk[CodecInput(codec.suffix)]
       IN  IF codec.suffix # ".srt" THEN codec' = [codec EXCEPT !.pc = "vp_read"]
           ELSE IF ReadRaises(lines)
                THEN codec' = [codec EXCEPT !.pc = "vp_raised", !.error = "ValueError"]
                ELSE codec' = [codec EXCEPT !.pc = "vp_read", !.vp = ReadBlocks(lines)]
    /\ UNCHANGED <<disk, walk, burn, ffmpeg_runs, compose, translator_vars>>

CodecNext == CodecRead \/ CodecTranslate \/ CodecWrite \/ CodecReadBack \/ VideoRead

CodecSpec == CodecInit /\ [][CodecNext]_vars

\* ------------------------------------------------------------ shared terms
\* The batch that ended last with success, and where its cues start.
DoneOffset == i - batch_size
DoneBatch == Batch(subtitles, DoneOffset)
BatchSucceeded == pc \in {"loop", "done"} /\ i > 0

\* Every response before the last one was rejected for its text or its length.
EarlierAllRejected ==
    \A k \in 1..(Len(svc_log) - 1) : svc_log[k] \in {"undecodable", "mismatch"}

LastClass == svc_log[Len(svc_log)]

\* ----------------------------------------------------------------- claims
\* C1: when a batch gets k invalid responses (undecodable, or an array of the
\* wrong length), 0 <= k <= 3, and then a valid one, the next pass of the
\* loop ends the batch with success, exactly k+1 requests have been issued,
\* and the batch's output is reassembled from that last response alone.
C1_RetryThenSuccess ==
    [][ ( /\ pc = "parse"
          /\ Len(svc_log) \in 1..4
          /\ EarlierAllRejected
          /\ LastClass = "valid" )
        => ( /\ pc' = "loop"
             /\ error' = "none"
             /\ requests' = requests
             /\ Len(requests) = Len(svc_log)
             /\ translated_subtitles' =
                    translated_subtitles \o Reassemble(last_response.items, CurrentBatch) )
      ]_vars

\* C1 witness: a batch that succeeded on its 4th response after 3 rejected ones,
\* one undecodable and one of the wrong length among them.
C1_Witness ==
    /\ BatchSucceeded
    /\ Len(svc_log) = 4
    /\ LastClass = "valid"
    /\ svc_log[1] = "undecodable"
    /\ svc_log[2] = "mismatch"
    /\ Len(requests) = 4
    /\ Len(translated_subtitles) > 0

\* Every response of the batch so far was rejected for its text or its length.
AllRejected == \A k \in 1..Len(svc_log) : svc_log[k] \in {"undecodable", "mismatch"}

\* The run ended because a batch used up its retries.
Exhausted == pc = "failed" /\ error \in {"json_unparseable", "line_count_mismatch"}

SameTiming(out, in) ==
    \A j \in 1..Len(out) :
        /\ out[j].start_time = in[j].start_time
        /\ out[j].end_time = in[j].end_time

\* C4: the cues collected from the batches that succeeded are as many as the
\* input cues of those batches and cue j keeps the start and end time of input
\* cue j; a finished run has collected, and written, one cue per input cue.
C4_CountAndTimingKept ==
    /\ Len(translated_subtitles) = Min(i, Len(subtitles))
    /\ SameTiming(translated_subtitles, subtitles)
    /\ pc = "done" => /\ Len(translated_subtitles) = Len(subtitles)
                      /\ Len(output_file) = Len(subtitles)
                      /\ SameTiming(output_file, subtitles)

\* C4 witness: a file of two batches is finished, its last cue translated.
C4_Witness ==
    /\ pc = "done"
    /\ Len(subtitles) > batch_size
    /\ Len(output_file) = Len(subtitles)
    /\ output_file[Len(subtitles)].text # subtitles[Len(subtitles)].text

\* The response the batch that succeeded last was reassembled from, its
\* entries, and the texts given to the cues of that batch.
AcceptedItems == last_response.items
DoneText(k) == translated_subtitles[DoneOffset + k].text
DoneRange == 1..Len(DoneBatch)

\* C5, as the specification words it: the text of cue k is the entry's
\* `translated` value when the entry has a non-empty one, else its `original`
\* value when it has one, else the source text.
C5_NonEmptyTranslatedDecides ==
    BatchSucceeded =>
        \A k \in DoneRange :
            LET e == AcceptedItems[k] IN
            DoneText(k) =
                IF e.isdict /\ e.has_translated /\ e.translated # "" THEN e.translated
                ELSE IF e.isdict /\ e.has_original THEN e.original
                ELSE DoneBatch[k].text

\* C5, amended: the text of cue k is the entry's `translated` value when the
\* entry is an object with a `translated` member, whatever its value (the
\* empty string included); else the `original` value when the entry is an
\* object with an `original` member; else the source text.
C5_TranslatedMemberDecides ==
    BatchSucceeded =>
        \A k \in DoneRange :
            LET e == AcceptedItems[k] IN
            /\ (e.isdict /\ e.has_translated) => DoneText(k) = e.translated
            /\ (e.isdict /\ ~e.has_translated /\ e.has_original) => DoneText(k) = e.original
            /\ (~e.isdict \/ (~e.has_translated /\ ~e.has_original))
                   => DoneText(k) = DoneBatch[k].text

\* C5 witness: an accepted response held an empty `translated` value beside a
\* non-empty `original`, an entry with `original` alone and an empty object.
C5_Witness ==
    /\ BatchSucceeded
    /\ \E k \in DoneRange :
           /\ AcceptedItems[k].has_translated
           /\ AcceptedItems[k].translated = ""
           /\ AcceptedItems[k].has_original
           /\ DoneText(k) = ""
    /\ \E k \in DoneRange :
           /\ AcceptedItems[k].isdict
           /\ ~AcceptedItems[k].has_translated
           /\ AcceptedItems[k].has_original
    /\ \E k \in DoneRange :
           /\ AcceptedItems[k].isdict
           /\ ~AcceptedItems[k].has_translated
           /\ ~AcceptedItems[k].has_original

\* Some entry of the array has no `translated` member.
LacksTranslated(items) == \E k \in 1..Len(items) : ~items[k].has_translated

\* C6: a decoded response whose array has the batch's length but with entries
\* lacking `translated` is accepted by the pass that decodes it: the batch
\* ends in success, no request is issued and retry_count does not move.
C6_GapsAcceptedAtOnce ==
    [][ ( /\ pc = "parse"
          /\ translated_json.shape = "array"
          /\ Len(translated_json.items) = Len(CurrentBatch)
          /\ LacksTranslated(translated_json.items) )
        => ( /\ pc' = "loop"
             /\ error' = "none"
             /\ requests' = requests
             /\ total_calls' = total_calls
             /\ retry_count' = retry_count
             /\ Len(translated_subtitles') = Len(translated_subtitles) + Len(CurrentBatch) )
      ]_vars

\* C6 witness: a batch succeeded on its first response, which had an entry
\* without `translated`, filled from `original`.
C6_Witness ==
    /\ BatchSucceeded
    /\ Len(requests) = 1
    /\ retry_count = 0
    /\ \E k \in DoneRange :
           /\ AcceptedItems[k].isdict
           /\ ~AcceptedItems[k].has_translated
           /\ DoneText(k) = AcceptedItems[k].original
           /\ DoneText(k) # DoneBatch[k].text

\* C7: when the accepted array holds plain strings, the text of cue k is the
\* k-th string.
C7_StringEntriesAreTheTexts ==
    (BatchSucceeded /\ \A k \in DoneRange : ~AcceptedItems[k].isdict)
        => \A k \in DoneRange : DoneText(k) = AcceptedItems[k].str

\* C8: every request issued for a batch equals the batch's first request.
C8_RetriesRepeatTheRequest ==
    \A k \in 1..Len(requests) : requests[k] = requests[1]

\* C9: a batch that failed on a response that cannot be decoded into an object
\* with a translated_subtitles array (invalid JSON, or JSON of another shape)
\* had used all of its 3 retries, that is, had issued 4 requests.
C9_UndecodableFailsOnlyWhenExhausted ==
    ( /\ pc = "failed"
      /\ error # "api_error"
      /\ svc_log # <<>>
      /\ LastClass \in {"undecodable", "wrong_shape"} )
        => Len(requests) = 4

\* C10: a decoded object without translated_subtitles, for a batch that is
\* not empty, is treated as an array of length 0 of the wrong length: the pass
\* that decodes it issues a retry while retry_count < 3, and with the retries
\* used up the batch fails with the line-count-mismatch error.
C10_MissingFieldIsMismatch ==
    [][ (pc = "parse" /\ translated_json.shape = "no_field" /\ Len(CurrentBatch) > 0)
        => IF retry_count < 3
           THEN /\ retry_count' = retry_count + 1
                /\ Len(requests') = Len(requests) + 1
                /\ pc' \in {"parse", "failed"}
                /\ pc' = "failed" => error' = "api_error"
           ELSE /\ pc' = "failed"
                /\ error' = "line_count_mismatch"
                /\ requests' = requests
      ]_vars

\* C10 witness: a batch failed for line-count mismatch on a 4th response that
\* was an object without translated_subtitles.
C10_Witness ==
    /\ pc = "failed"
    /\ error = "line_count_mismatch"
    /\ last_response.shape = "no_field"
    /\ Len(requests) = 4
    /\ retry_count = 4

\* The service call of the current batch raised.
ServiceFailed == error = "api_error"

Corresponds(out, j) ==
    /\ out.start_time = subtitles[j].start_time
    /\ out.end_time = subtitles[j].end_time
    /\ out.text \in {subtitles[j].text, ""}
                      \cup {TrText(v, j) : v \in 1..MaxVariants}
                      \cup {OrigText(v, j) : v \in 1..MaxVariants}

\* ceil(n / batch_size)
BatchCount(n) == (n + batch_size - 1) \div batch_size

\* C12: the N cues are cut into ceil(N/20) consecutive batches of at most 20
\* cues, every batch but the last of exactly 20; the first request of a batch
\* is issued only when every earlier batch has succeeded and its cues are in
\* the result; the result is the concatenation of the batches' outputs in
\* order, so that output cue j stands for input cue j.
C12_BatchesInOrder ==
    /\ i % batch_size = 0
    /\ Len(translated_subtitles) = Min(i, Len(subtitles))
    /\ \A j \in 1..Len(translated_subtitles) : Corresponds(translated_subtitles[j], j)
    /\ pc \in {"parse", "failed"} =>
          /\ i < Len(subtitles)
          /\ Len(CurrentBatch) = Min(batch_size, Len(subtitles) - i)
          /\ \A k \in 1..Len(CurrentBatch) : CurrentBatch[k] = subtitles[i + k]
          /\ requests[1].user = UserPayload(CurrentBatch)
          /\ requests[1].user.count = Len(CurrentBatch)
          /\ total_calls >= (i \div batch_size) + Len(requests)
    /\ pc = "done" =>
          /\ i = BatchCount(Len(subtitles)) * batch_size
          /\ total_calls >= BatchCount(Len(subtitles))
          /\ Len(output_file) = Len(subtitles)
          /\ \A j \in 1..Len(output_file) : Corresponds(output_file[j], j)

\* C12 witness: a file of 21 cues is written after two batches, 20 cues and 1.
C12_Witness ==
    /\ pc = "done"
    /\ Len(subtitles) = batch_size + 1
    /\ i = 2 * batch_size
    /\ Len(output_file) = batch_size + 1
    /\ requests[1].user.count = 1
    /\ output_file[batch_size + 1].text = TrText(1, batch_size + 1)

\* ------------------------------------------------- claims on _deoverlap_srt
\* The call of _deoverlap_srt on the input file has returned.
FirstPassDone == walk.pc = "returned" /\ walk.srt_path = InputPath

\* The call of _deoverlap_srt on its own output has returned.
SecondPassDone == walk.pc = "returned" /\ walk.srt_path = TmpPaths[1]

InCues == ReadCues(disk[InputPath])
OutCues == ReadCues(disk[walk.tmp])

\* C13: after _deoverlap_srt every cue still ends after it starts, and no
\* time of the output is negative.
C13_CuesStayValid ==
    FirstPassDone =>
        \A j \in 1..Len(OutCues) :
            /\ OutCues[j].end_time > OutCues[j].start_time
            /\ OutCues[j].start_time >= 0
            /\ OutCues[j].end_time >= 0

\* C14: after _deoverlap_srt every cue of the input is still there and each
\* cue ends no later than the next cue in file order starts.
C14_ConsecutiveCuesApart ==
    walk.pc = "returned" =>
        /\ Len(OutCues) = Len(ReadCues(disk[walk.srt_path]))
        /\ \A j \in 1..(Len(OutCues) - 1) :
               OutCues[j].end_time <= OutCues[j + 1].start_time

\* C14 witness: the track [1.0,3.0], [2.5,5.0], [2.5,3.0] has been deoverlapped.
C14_Witness ==
    /\ FirstPassDone
    /\ Len(InCues) = 3
    /\ InCues[1].start_time = 1000 /\ InCues[1].end_time = 3000
    /\ InCues[2].start_time = 2500 /\ InCues[2].end_time = 5000
    /\ InCues[3].start_time = 2500
    /\ OutCues[1].end_time = 2480
    /\ OutCues[2].end_time = 2480

\* C15: for consecutive cues prev and cur, prev's end becomes exactly
\* cur.start - 0.02 s when cur starts strictly before prev's original end,
\* and stays as it was otherwise (touching cues included).
C15_EndShrunkByEpsilon ==
    FirstPassDone =>
        /\ Len(OutCues) = Len(InCues)
        /\ \A j \in 1..(Len(InCues) - 1) :
               OutCues[j].end_time =
                   IF InCues[j + 1].start_time < InCues[j].end_time
                   THEN InCues[j + 1].start_time - epsilon
                   ELSE InCues[j].end_time

\* C16: _deoverlap_srt applied to its own output gives the cues of that
\* output again: same starts, ends, texts and order.
C16_Idempotent ==
    SecondPassDone => ReadCues(disk[TmpPaths[2]]) = ReadCues(disk[TmpPaths[1]])

\* --------------------------------------------------- claims on burning
\* The stages of the r-th transcoder invocation.
StagesOf(r) == ffmpeg_runs[r].stages

\* C17: in every transcoder invocation of a burn operation (burn_subtitle,
\* burn_english_subtitle, burn_bilingual_subtitle) each track named in the
\* filter is a file holding the result of deoverlap on that one input track:
\* no track is burned without having been deoverlapped.
C17_TracksDeoverlapped ==
    \A r \in 1..Len(ffmpeg_runs) :
        \A k \in 1..Len(StagesOf(r)) :
            /\ StagesOf(r)[k].track # StagesOf(r)[k].source
            /\ Exists(StagesOf(r)[k].track)
            /\ disk[StagesOf(r)[k].track] = Deoverlapped(disk[StagesOf(r)[k].source])

\* C18: in the filter of burn_bilingual_subtitle the Chinese stage has a
\* strictly larger MarginV and a strictly larger font size than the English
\* stage, whatever wrap_style and play_res_y are.
C18_PrimaryAboveAndLarger ==
    \A r \in 1..Len(ffmpeg_runs) :
        ffmpeg_runs[r].op = "burn_bilingual_subtitle" =>
            /\ Len(StagesOf(r)) = 2
            /\ StagesOf(r)[1].source = EnglishPath
            /\ StagesOf(r)[2].source = ChinesePath
            /\ StyleValue(StagesOf(r)[2].style, "MarginV")
                   > StyleValue(StagesOf(r)[1].style, "MarginV")
            /\ StyleValue(StagesOf(r)[2].style, "FontSize")
                   > StyleValue(StagesOf(r)[1].style, "FontSize")

\* ---------------------------------- claims on create_bilingual_subtitle_file
\* |a - b| < 0.5 s on the times the files state.
CloserThanHalfExact(a, b) == a - b < 500 /\ b - a < 500

\* The secondary cues whose start and end are both less than 0.5 s away
\* from those of primary cue p.
CloseCues(p) ==
    {j \in 1..Len(compose.english_subtitles) :
        /\ CloserThanHalfExact(compose.english_subtitles[j].start_time, p.start_time)
        /\ CloserThanHalfExact(compose.english_subtitles[j].end_time, p.end_time)}

\* C19: for each primary cue the secondary text is that of the first secondary
\* cue, in file order, whose start and end are both strictly less than 0.5 s
\* away from the primary cue's, and empty when there is none; a secondary
\* cue that was matched once stays available.
C19_FirstCloseCueWins ==
    compose.pc \in {"loop", "returned"} =>
        \A k \in 1..Len(compose.found) :
            LET close == CloseCues(compose.chinese_subtitles[k])
            IN  compose.found[k] =
                    IF close = {} THEN ""
                    ELSE compose.english_subtitles[
                             CHOOSE j \in close : \A h \in close : j <= h].text

\* The Text field t holds the break marker.
HasBreak(t) == \E j \in 1..Len(t) : t[j].tok = "break"

\* C20: a Dialogue line holds the break marker followed by a secondary
\* segment exactly when a non-empty secondary text was found for its cue,
\* and is a single primary segment otherwise; without a secondary file no
\* line holds the marker; in a two-segment line the primary text comes
\* first and has the larger font size.
C20_BreakIffSecondaryFound ==
    compose.pc \in {"loop", "returned"} =>
        /\ Len(compose.found) = Len(compose.ass_lines)
        /\ \A k \in 1..Len(compose.ass_lines) :
              LET t == compose.ass_lines[k].text
                  c == compose.chinese_subtitles[k].text
              IN  /\ HasBreak(t) <=> compose.found[k] # ""
                  /\ HasBreak(t) =>
                        /\ Len(t) = 5
                        /\ t[2] = TextPiece(c)
                        /\ t[3] = BreakMarker
                        /\ t[5] = TextPiece(compose.found[k])
                        /\ t[1].tok = "override" /\ t[4].tok = "override"
                        /\ t[1].fs > t[4].fs
                  /\ ~HasBreak(t) => t = <<FontSizeTag(28, ""), TextPiece(c)>>
                  /\ ~compose.english_given => ~HasBreak(t)
        /\ compose.pc = "returned" =>
              disk[compose.output_file] = <<AssHeader>> \o compose.ass_lines

\* C20 witness: a file was written whose first line has both segments and
\* whose second line has the primary segment alone.
C20_Witness ==
    /\ compose.pc = "returned"
    /\ compose.english_given
    /\ Len(compose.ass_lines) = 2
    /\ HasBreak(compose.ass_lines[1].text)
    /\ ~HasBreak(compose.ass_lines[2].text)
    /\ compose.found = <<"e2", "">>
    /\ Exists(compose.output_file)

\* ------------------------------------------------ further translator claims
\* C27: the retry budget belongs to the batch: every batch starts with the
\* counter at 0 whatever the batches before it used, the counter of a batch
\* counts its own retries only, a batch fails for exhaustion only after its
\* own 4 calls, and a file of B batches that succeeds has taken at least B
\* and at most 4*B service calls.
C27_RetryBudgetPerBatch ==
    /\ [][ (pc = "loop" /\ pc' \in {"parse", "failed"})
            => (retry_count' = 0 /\ Len(requests') = 1) ]_vars
    /\ [](pc \in {"parse", "failed"} => retry_count + 1 >= Len(requests))
    /\ [](pc = "parse" => retry_count = Len(requests) - 1)
    /\ [](Exhausted => Len(requests) = max_retries + 1)
    /\ [](pc = "done" =>
            /\ total_calls >= BatchCount(Len(subtitles))
            /\ total_calls <= (max_retries + 1) * BatchCount(Len(subtitles)))

\* C27 witness: a file of two batches is written after each batch took 3
\* retries, 8 calls in all.
C27_Witness ==
    /\ pc = "done"
    /\ Len(subtitles) = batch_size + 1
    /\ total_calls = 2 * (max_retries + 1)
    /\ Len(requests) = max_retries + 1
    /\ retry_count = max_retries

\* ------------------------------------------ further claims on _deoverlap_srt
\* C25: _deoverlap_srt changes nothing but the ends of cues that overlap
\* their successor: the cues keep their number, order, starts and texts, the
\* last cue and every cue whose successor starts at or after its end keep
\* their ends, and the input file is left as it was, the result being
\* another file.
C25_OnlyOverlappingEndsChange ==
    FirstPassDone =>
        /\ Len(OutCues) = Len(InCues)
        /\ \A j \in 1..Len(InCues) :
              /\ OutCues[j].start_time = InCues[j].start_time
              /\ OutCues[j].text = InCues[j].text
              /\ (j = Len(InCues) \/ InCues[j + 1].start_time >= InCues[j].end_time)
                    => OutCues[j].end_time = InCues[j].end_time
        /\ walk.tmp # InputPath
        /\ disk[InputPath] = walk.content

\* C25 witness: of three cues the first overlaps the second, which touches
\* the third; only the first end has changed.
C25_Witness ==
    /\ FirstPassDone
    /\ Len(InCues) = 3
    /\ InCues[1].end_time = 3000 /\ InCues[2].start_time = 1000
    /\ InCues[2].end_time = 2500 /\ InCues[3].start_time = 2500
    /\ OutCues[1].end_time = 980
    /\ OutCues[2].end_time = 2500
    /\ OutCues[3].end_time = InCues[3].end_time

\* The cues of the input file come in order of their starts.
SortedByStart == \A j \in 1..(Len(InCues) - 1) : InCues[j].start_time <= InCues[j + 1].start_time

\* C28: when the input cues are ordered by non-decreasing start, no two
\* cues of the output overlap, adjacent or not: each cue ends no later than
\* every later cue starts.
C28_NoOverlapAtAll ==
    (FirstPassDone /\ SortedByStart) =>
        \A j \in 1..Len(OutCues) : \A k \in (j + 1)..Len(OutCues) :
            OutCues[j].end_time <= OutCues[k].start_time

\* C28 witness: the first cue [0,5] ran over both later cues, [1,2.5] and [2.5,3].
C28_Witness ==
    /\ FirstPassDone
    /\ SortedByStart
    /\ Len(InCues) = 3
    /\ InCues[1].start_time = 0 /\ InCues[1].end_time = 5000
    /\ InCues[2].start_time = 1000
    /\ InCues[3].start_time = 2500
    /\ OutCues[1].end_time = 980

\* ------------------------------------------------ further claims on burning
\* The input files a burn operation needs: the video and its subtitle tracks.
RequiredInputs ==
    {VideoPath} \cup
    CASE burn.op = "burn_subtitle"           -> {ChinesePath}
      [] burn.op = "burn_english_subtitle"   -> {EnglishPath}
      [] burn.op = "burn_bilingual_subtitle" -> {ChinesePath, EnglishPath}

BurnEnded == burn.pc \in {"returned", "raised"}

\* The files a burn operation has added to the disk.
AddedFiles == DOMAIN disk \ {VideoPath, ChinesePath, EnglishPath}

\* C24: when the video or a required subtitle file does not exist, a burn
\* operation fails with a missing-file error, and until then it has neither
\* invoked the transcoder nor written any file.
C24_MissingInputFailsFirst ==
    (\E p \in RequiredInputs : ~Exists(p)) =>
        /\ ffmpeg_runs = <<>>
        /\ AddedFiles = {}
        /\ BurnEnded => burn.error = "FileNotFoundError"

\* C26: once a burn operation has returned or failed, the only file it may
\* have added to the disk is its named output file; no deoverlapped
\* intermediate file is left.
C26_NoIntermediateFilesLeft ==
    BurnEnded => AddedFiles \subseteq {OutputPath(burn.op)}

\* ------------------------------------------------- claims on the codecs
\* The input file of the codecs and the file translate_subtitle_file writes.
CodecIn == disk[CodecInput(codec.suffix)]
CodecOut == CodecOutput(codec.suffix)

\* Where the well-formed blocks of an .srt file start: an index line, a
\* time line with a proper arrow and proper times, and a line of text.
WellFormedAt(lines) ==
    SelectSeq([k \in 1..Len(lines) |-> k],
              LAMBDA k : /\ k + 2 <= Len(lines)
                         /\ lines[k].kind = "index"
                         /\ lines[k + 1].kind = "time"
                         /\ lines[k + 2].kind = "text")

\* The translator's reader gives the cues of the well-formed blocks, in order.
TranslatorReadsWellFormed ==
    (codec.pc = "read" /\ codec.suffix = ".srt") =>
        /\ Len(codec.subtitles) = Len(WellFormedAt(CodecIn))
        /\ \A j \in 1..Len(codec.subtitles) :
              codec.subtitles[j].start_time.at = CodecIn[WellFormedAt(CodecIn)[j] + 1].t1

\* The video processor's reader gives the cues of the well-formed blocks, in order.
VideoReadsWellFormed ==
    (codec.pc = "vp_read" /\ codec.suffix = ".srt") =>
        /\ Len(codec.vp) = Len(WellFormedAt(CodecIn))
        /\ \A j \in 1..Len(codec.vp) :
              codec.vp[j].start_time = ParseTimeSrt(CodecIn[WellFormedAt(CodecIn)[j] + 1].t1)

\* C21: what _write_subtitle_file writes for a translated cue sequence of an
\* .srt file is read back by _parse_srt_content as the same sequence: as
\* many cues, with the same texts and times, in the same order.
C21_SrtRoundTrip ==
    (codec.pc = "read_back" /\ codec.suffix = ".srt") => codec.read_back = codec.translated

\* C22: neither reader raises on a file with malformed blocks, and each
\* yields exactly the cues of the well-formed blocks, in file order.
C22_MalformedBlocksSkipped ==
    /\ codec.pc # "vp_raised"
    /\ TranslatorReadsWellFormed
    /\ VideoReadsWellFormed

\* Where the cues of a .vtt file start: its time lines.
VttTimeAt(lines) == SelectSeq([k \in 1..Len(lines) |-> k], LAMBDA k : lines[k].kind = "vtt_time")

\* The text lines of the cue whose time line is line k: the lines below it,
\* up to the next blank line.
RECURSIVE OwnLines(_, _)
OwnLines(lines, k) ==
    IF k + 1 > Len(lines) \/ lines[k + 1].kind = "blank" THEN <<>>
    ELSE <<lines[k + 1]>> \o OwnLines(lines, k + 1)

\* C23: every cue _parse_vtt_content gives, the last and the earlier ones
\* alike, has as text its own text lines joined by single blanks, without
\* blanks at either end and without anything from header or comment lines,
\* and has its times written with a comma.
C23_VttTextsAndTimes ==
    (codec.pc = "read" /\ codec.suffix = ".vtt") =>
        /\ Len(codec.subtitles) = Len(VttTimeAt(CodecIn))
        /\ \A j \in 1..Len(codec.subtitles) :
              /\ codec.subtitles[j].text = JoinTexts(OwnLines(CodecIn, VttTimeAt(CodecIn)[j]), 1)
              /\ codec.subtitles[j].text = Strip(codec.subtitles[j].text)
              /\ codec.subtitles[j].start_time = TimeString(",", CodecIn[VttTimeAt(CodecIn)[j]].t1)
              /\ codec.subtitles[j].end_time = TimeString(",", CodecIn[VttTimeAt(CodecIn)[j]].t2)

\* The input cannot give a cue: it is empty, has another suffix than .srt
\* and .vtt, or is an .srt file without a well-formed block.
ZeroCueInput ==
    \/ CodecIn = <<>>
    \/ codec.suffix \notin {".srt", ".vtt"}
    \/ codec.suffix = ".srt" /\ WellFormedAt(CodecIn) = <<>>

CodecReadDone == codec.pc \in {"read", "translated", "raised", "written", "read_back"}

\* C29: an input that parses to no cue (an empty file, only malformed
\* blocks, a suffix that is neither .srt nor .vtt) makes
\* translate_subtitle_file issue no request and raise no error, and the
\* output file is still written, and is empty.
C29_ZeroCuesEmptyOutput ==
    /\ (CodecReadDone /\ ZeroCueInput) => codec.subtitles = <<>>
    /\ (CodecReadDone /\ codec.subtitles = <<>>) =>
          /\ codec.calls = 0
          /\ codec.error = "none"
          /\ codec.pc # "raised"
          /\ codec.pc = "read" => ENABLED CodecTranslate
          /\ codec.pc = "translated" => ENABLED CodecWrite
          /\ codec.pc \in {"written", "read_back"} => (Exists(CodecOut) /\ disk[CodecOut] = <<>>)

\* C29 witness: an .srt file of two malformed blocks has been translated
\* into an empty file.
C29_Witness ==
    /\ codec.pc = "written"
    /\ codec.suffix = ".srt"
    /\ Len(CodecIn) > 4
    /\ codec.subtitles = <<>>
    /\ codec.calls = 0
    /\ disk[CodecOut] = <<>>

\* C30: the file written for a .vtt input has the suffix .vtt and is read
\* back by _read_subtitle_file as the translated cue sequence that was
\* written: same length, same times, same texts.
C30_VttOutputReadsBack ==
    (codec.suffix = ".vtt" /\ codec.pc \in {"written", "read_back"}) =>
        /\ Exists(CodecOutput(".vtt"))
        /\ codec.pc = "read_back" => codec.read_back = codec.translated

====
